---- MODULE Spec2Model ----
(***************************************************************************)
(* The chat page of KnitecIQ (src/app_chat.py): a Streamlit script that is *)
(* run from top to bottom once per widget event.  st.session_state holds   *)
(* the working chat (chat_id, chat_title, messages, chat_history) and the  *)
(* per-browser-session chat_store; every run reloads the working chat from *)
(* the store, seeds the intro message, handles the sidebar and then the    *)
(* chat input, streaming the provider's reply.                             *)
(*                                                                         *)
(* Text is a string, that is a sequence of characters: strip(), split(),   *)
(* join and concatenation are computed on it, not assumed.                 *)
(***************************************************************************)
EXTENDS Integers, Sequences, FiniteSets, TLC

(***************************************************************************)
(* Bounds of the model.                                                    *)
(***************************************************************************)
\* prompts accepted (line 307 executed) over the whole browser session
MaxTurns == 2
\* chunks the provider yields in one streamed response
MaxChunks == 2
\* advances of the wall clock that time.time() reads
MaxTicks == 1
\* words of the longest prompt a title is derived from
MaxWords == 9

(***************************************************************************)
(* String literals of the source.                                          *)
(***************************************************************************)
NEW_CHAT == "New Chat"

API_ERROR_SENTINEL == "(No response due to API error.)"

NO_RESPONSE == "(No response.)"

intro_msg ==
    "I'm Knitec IQ, a chatbot that will guide you through the KniTec Installation "
    \o "Questionnaire one question at a time and then summarize your answers."

CHAT_PREFIX == "Chat "

ELLIPSIS == "..."

MODEL_ROLE == "assistant"

AI_AVATAR_ICON == "assets/Knitec_IQ_avatar.png"

\* words kept by friendly_title_from_prompt
TITLE_WORDS == 8

(***************************************************************************)
(* Python string operations, on strings as sequences of characters.        *)
(***************************************************************************)
\* the character at position i of s
At(s, i) == SubSeq(s, i, i)

\* whitespace taken to be the blank alone, as split(' ') and strip(' ') take it
IsSpace_BlankOnly(c) == c = " "

\* the characters str.strip() and str.split() treat as whitespace
IsSpace(c) == c \in {" ", "\t", "\n", "\r"}

RECURSIVE LStrip(_)
LStrip(s) ==
    IF s = "" THEN ""
    ELSE IF IsSpace(Head(s)) THEN LStrip(Tail(s)) ELSE s

RECURSIVE RStrip(_)
RStrip(s) ==
    IF s = "" THEN ""
    ELSE IF IsSpace(At(s, Len(s))) THEN RStrip(SubSeq(s, 1, Len(s) - 1)) ELSE s

\* str.strip()
Strip(s) == RStrip(LStrip(s))

\* str.split() with no separator: the maximal runs of non-whitespace
RECURSIVE SplitFrom(_, _, _)
SplitFrom(s, cur, acc) ==
    IF s = "" THEN (IF cur = "" THEN acc ELSE Append(acc, cur))
    ELSE IF IsSpace(Head(s))
         THEN SplitFrom(Tail(s), "", IF cur = "" THEN acc ELSE Append(acc, cur))
         ELSE SplitFrom(Tail(s), cur \o Head(s), acc)

Split(s) == SplitFrom(s, "", <<>>)

\* sep.join(words)
RECURSIVE Join(_, _)
Join(words, sep) ==
    IF words = <<>> THEN ""
    ELSE IF Len(words) = 1 THEN words[1]
    ELSE words[1] \o sep \o Join(Tail(words), sep)

\* words[:n]
Take(words, n) == SubSeq(words, 1, IF Len(words) < n THEN Len(words) ELSE n)

(***************************************************************************)
(* Numbers as text: f'{time.time()}', float(chat_id) and strftime.         *)
(***************************************************************************)
DIGITS == "0123456789"

IsDigit(c) == \E d \in 1..Len(DIGITS) : At(DIGITS, d) = c

DigitVal(c) == (CHOOSE d \in 1..Len(DIGITS) : At(DIGITS, d) = c) - 1

RECURSIVE Decimal(_)
Decimal(n) ==
    IF n < Len(DIGITS) THEN At(DIGITS, n + 1)
    ELSE Decimal(n \div Len(DIGITS)) \o At(DIGITS, (n % Len(DIGITS)) + 1)

\* a number printed in at least w digits, zero-padded (%m, %d, %H, %M, %Y)
RECURSIVE ZeroPad(_, _)
ZeroPad(n, w) ==
    LET d == Decimal(n) IN
    IF Len(d) >= w THEN d ELSE "0" \o ZeroPad(n, w - 1)

\* f'{time.time()}' for a clock reading of t whole seconds: the repr of the float
FormatTime(t) == Decimal(t) \o ".0"

RECURSIVE AllDigits(_)
AllDigits(s) == s = "" \/ (IsDigit(Head(s)) /\ AllDigits(Tail(s)))

RECURSIVE DigitsValue(_, _)
DigitsValue(s, acc) ==
    IF s = "" THEN acc ELSE DigitsValue(Tail(s), acc * Len(DIGITS) + DigitVal(Head(s)))

\* position of the first "." of s, or 0
RECURSIVE DotAt(_, _)
DotAt(s, i) ==
    IF i > Len(s) THEN 0 ELSE IF At(s, i) = "." THEN i ELSE DotAt(s, i + 1)

\* float(chat_id) that takes no whitespace around the number
ParseFloat_Strict(text) ==
    LET k == DotAt(text, 1)
        ip == IF k = 0 THEN text ELSE SubSeq(text, 1, k - 1)
        fp == IF k = 0 THEN "" ELSE SubSeq(text, k + 1, Len(text))
    IN  IF AllDigits(ip) /\ AllDigits(fp) /\ (ip # "" \/ fp # "")
        THEN DigitsValue(ip, 0)
        ELSE -1

\* float(chat_id), for the plain decimal notation (digits, at most one "."),
\* surrounding whitespace allowed: the whole seconds, or -1 for ValueError.
\* The fraction only sets the microseconds, which the title does not show.
ParseFloat(text) ==
    LET s == Strip(text)
        k == DotAt(s, 1)
        ip == IF k = 0 THEN s ELSE SubSeq(s, 1, k - 1)
        fp == IF k = 0 THEN "" ELSE SubSeq(s, k + 1, Len(s))
    IN  IF AllDigits(ip) /\ AllDigits(fp) /\ (ip # "" \/ fp # "")
        THEN DigitsValue(ip, 0)
        ELSE -1

RECURSIVE NoLeadingZeros(_)
NoLeadingZeros(s) == IF Len(s) > 1 /\ Head(s) = "0" THEN NoLeadingZeros(Tail(s)) ELSE s

\* float(text) is a number that datetime.fromtimestamp refuses (ValueError: year
\* out of range): one of 13 digits or more, which lies past the year 9999.
\* (Numbers of 11 and 12 digits, on either side of that year, are left out of
\* the chat ids of the model.)
PastLastYear(text) ==
    LET s == Strip(text)
        k == DotAt(s, 1)
        ip == IF k = 0 THEN s ELSE SubSeq(s, 1, k - 1)
        fp == IF k = 0 THEN "" ELSE SubSeq(s, k + 1, Len(s))
    IN  AllDigits(ip) /\ AllDigits(fp) /\ Len(NoLeadingZeros(ip)) >= 13

\* datetime.fromtimestamp(ts).strftime('%Y-%m-%d %H:%M'), the local zone being
\* UTC: the proleptic Gregorian date of day ts \div 86400 and the minute of it.
StrfTime(ts) ==
    LET days == ts \div 86400
        secs == ts % 86400
        z    == days + 719468
        era  == z \div 146097
        doe  == z - era * 146097
        yoe  == (doe - doe \div 1460 + doe \div 36524 - doe \div 146096) \div 365
        doy  == doe - (365 * yoe + yoe \div 4 - yoe \div 100)
        mp   == (5 * doy + 2) \div 153
        d    == doy - (153 * mp + 2) \div 5 + 1
        m    == IF mp < 10 THEN mp + 3 ELSE mp - 9
        y    == yoe + era * 400 + (IF m <= 2 THEN 1 ELSE 0)
    IN  ZeroPad(y, 4) \o "-" \o ZeroPad(m, 2) \o "-" \o ZeroPad(d, 2)
        \o " " \o ZeroPad(secs \div 3600, 2) \o ":" \o ZeroPad((secs % 3600) \div 60, 2)

(***************************************************************************)
(* Titles (lines 189-207).                                                 *)
(***************************************************************************)
default_chat_title(chat_id_) ==
    IF PastLastYear(chat_id_) \/ ParseFloat(chat_id_) < 0
    THEN NEW_CHAT
    ELSE CHAT_PREFIX \o StrfTime(ParseFloat(chat_id_))

\* friendly_title_from_prompt that marks a prompt of exactly 8 words as cut
friendly_title_MarksEightWords(prompt, chat_id_) ==
    LET words == Split(Strip(prompt)) IN
    IF words = <<>> THEN default_chat_title(chat_id_)
    ELSE Join(Take(words, TITLE_WORDS), " ")
         \o (IF Len(words) >= TITLE_WORDS THEN ELLIPSIS ELSE "")

friendly_title_from_prompt(prompt, chat_id_) ==
    LET words == Split(Strip(prompt)) IN
    IF words = <<>> THEN default_chat_title(chat_id_)
    ELSE Join(Take(words, TITLE_WORDS), " ")
         \o (IF Len(words) > TITLE_WORDS THEN ELLIPSIS ELSE "")

(***************************************************************************)
(* Inputs: what the user submits and what the provider streams.            *)
(***************************************************************************)
\* texts st.chat_input can deliver: nothing, whitespace only, a plain message,
\* and a message that happens to read like the failure sentinel
Prompts == { "", " ", "hi", API_ERROR_SENTINEL }

\* the widget event that triggers a script run: a plain rerun, a click on
\* 'Start new chat', or a submission of the chat input.  A run carries one
\* event; which one shows when st.button and st.chat_input return.
Events == { "none", "click", "prompt" }

\* chunk.choices[0].delta.content of a well-formed chunk: None, a str, or a list
\* of parts (each with its .text and its str())
ContentValues ==
    { [type |-> "none"],
      [type |-> "str", val |-> API_ERROR_SENTINEL],
      [type |-> "parts", val |-> << [text |-> "b", str |-> "<Part>"],
                                    [text |-> "", str |-> "<Part>"] >>] }

WellFormedChunks == { [choices |-> 1, content |-> c] : c \in ContentValues }

\* a chunk whose choices list is empty: chunk.choices[0] raises IndexError
NoChoicesChunk == [choices |-> 0]

(***************************************************************************)
(* Transcript entries and store records.                                   *)
(***************************************************************************)
\* dict(role='user', content=prompt), lines 312-317, and line 307
UserMessage(prompt) == [role |-> "user", content |-> prompt]

\* dict(role=MODEL_ROLE, content=..., avatar=AI_AVATAR_ICON), lines 237-243, 361-367
AssistantMessage(text) == [role |-> MODEL_ROLE, content |-> text, avatar |-> AI_AVATAR_ICON]

\* {'role': 'assistant', 'content': ...}, lines 244 and 369
AssistantTurn(text) == [role |-> "assistant", content |-> text]

\* dict(title=..., messages=list(...), chat_history=list(...))
ChatRecord(title, msgs, hist) == [title |-> title, messages |-> msgs, chat_history |-> hist]

\* chat_store[id] = rec
Put(store, id, rec) == [k \in DOMAIN store \cup {id} |-> IF k = id THEN rec ELSE store[k]]

\* chat.get(key, default), and chat.get(key) with '' standing for None: both
\* are falsy where the result is read (line 217)
Get(chat, key, default) == IF key \in DOMAIN chat THEN chat[key] ELSE default

\* _load_chat that restores the title and the messages only
LoadChat_WithoutHistory(store, id) ==
    IF id \in DOMAIN store
    THEN ChatRecord(IF Get(store[id], "title", "") # "" THEN store[id].title
                    ELSE default_chat_title(id),
                    Get(store[id], "messages", <<>>), <<>>)
    ELSE ChatRecord(default_chat_title(id), <<>>, <<>>)

\* _load_chat that takes the stored title as it is
LoadChat_WithoutFallback(store, id) ==
    IF id \in DOMAIN store
    THEN ChatRecord(Get(store[id], "title", ""),
                    Get(store[id], "messages", <<>>), Get(store[id], "chat_history", <<>>))
    ELSE ChatRecord("", <<>>, <<>>)

\* _load_chat (lines 213-224): the working title, messages and chat_history for id
LoadChat(store, id) ==
    IF id \in DOMAIN store
    THEN ChatRecord(IF Get(store[id], "title", "") # "" THEN store[id].title
                    ELSE default_chat_title(id),
                    Get(store[id], "messages", <<>>), Get(store[id], "chat_history", <<>>))
    ELSE ChatRecord(default_chat_title(id), <<>>, <<>>)

(***************************************************************************)
(* The stream loop (lines 341-355) and the outcome (lines 356-369).        *)
(***************************************************************************)
RECURSIVE PartsText(_)
PartsText(parts) ==
    IF parts = <<>> THEN ""
    ELSE (IF Head(parts).text # "" THEN Head(parts).text ELSE Head(parts).str)
         \o PartsText(Tail(parts))

\* lines 342-349: the text a chunk contributes ('' when the loop continues)
PieceText(chunk) ==
    LET c == chunk.content IN
    IF c.type = "none" THEN ""
    ELSE IF c.type = "str" THEN c.val
    ELSE PartsText(c.val)

\* line 350
Accumulate(response, chunk) == response \o PieceText(chunk)

\* lines 353-354
Normalise(response) == IF response = "" THEN NO_RESPONSE ELSE response

\* line 368 without the comparison with the sentinel
RecordsInHistory_AnyText(response) == response # ""

\* line 368
RecordsInHistory(response) == response # "" /\ response # API_ERROR_SENTINEL

\* SYSTEM_PROMPT (lines 283-291): the text of the instructions file, or the
\* fallback when the file cannot be read
SystemPrompts == { "<Knitec_IQ_Instructions_Trimmed.txt>", "You are Knitec IQ assistant." }

\* line 337: the messages argument of the call
RequestMessages(system_prompt, history) ==
    << [role |-> "system", content |-> system_prompt] >> \o history

\* lines 304-305 with the title derived on every accepted prompt
DerivesTitle_OnEveryPrompt(store, id, title) == TRUE

\* lines 304-305
DerivesTitle(store, id, title) == id \notin DOMAIN store /\ (title = "" \/ title = NEW_CHAT)

(***************************************************************************)
(* State.                                                                  *)
(***************************************************************************)
VARIABLES
    clock,          \* what time.time() last read, in whole seconds
    chat_store,     \* st.session_state.chat_store: chat id -> record
    chat_id,        \* st.session_state.chat_id
    chat_title,     \* st.session_state.chat_title
    messages,       \* st.session_state.messages: the display transcript
    chat_history,   \* st.session_state.chat_history: the model history
    pc,             \* where the current script run stands ("idle": no run)
    event,          \* the widget event of the current run, as far as the
                    \* widgets have returned it ("none" until then)
    prompt,         \* what st.chat_input returned to this run ('' for None)
    full_response,  \* the local full_response of lines 326-364
    chunks,         \* the chunks the response iterator has yielded this turn
    outcome,        \* how the try block of lines 334-359 ended in this run, or
                    \* in the last one while no run is under way
    turn_count      \* per chat id: turns begun (line 307) and turns whose
                    \* stream ended normally and whose outcome was recorded

vars == << clock, chat_store, chat_id, chat_title, messages, chat_history,
           pc, event, prompt, full_response, chunks, outcome, turn_count >>

working == << chat_id, chat_title, messages, chat_history >>

locals == << prompt, full_response, chunks, outcome >>

\* the first reading of time.time() (line 75), 2023-11-14 22:13:20 UTC
FirstClock == 1700000000

RECURSIVE SumBegun(_, _)
SumBegun(tc, ids) ==
    IF ids = {} THEN 0
    ELSE LET i == CHOOSE x \in ids : TRUE IN tc[i].begun + SumBegun(tc, ids \ {i})

TurnsBegun == SumBegun(turn_count, DOMAIN turn_count)

Count(tc, id) == IF id \in DOMAIN tc THEN tc[id] ELSE [begun |-> 0, ok |-> 0]

\* lines 72-81 of the first run: an empty store and a fresh working chat
Init ==
    /\ clock = FirstClock
    /\ chat_store = << >>
    /\ chat_id = FormatTime(FirstClock)
    /\ chat_title = NEW_CHAT
    /\ messages = <<>>
    /\ chat_history = <<>>
    /\ pc = "load"
    /\ event = "none"
    /\ prompt = ""
    /\ full_response = ""
    /\ chunks = <<>>
    /\ outcome = "none"
    /\ turn_count = << >>

(***************************************************************************)
(* The steps of one script run.                                            *)
(***************************************************************************)
\* line 227: _load_chat(st.session_state.chat_id)
Load ==
    /\ pc = "load"
    /\ LET c == LoadChat(chat_store, chat_id) IN
        /\ chat_title' = c.title
        /\ messages' = c.messages
        /\ chat_history' = c.chat_history
    /\ pc' = "seed"
    /\ UNCHANGED << clock, chat_store, chat_id, event, locals, turn_count >>

\* seed_intro_message() without the test of lines 231-232
SeedIntro_Always ==
    /\ pc = "seed"
    /\ messages' = Append(messages, AssistantMessage(intro_msg))
    /\ chat_history' = Append(chat_history, AssistantTurn(intro_msg))
    /\ chat_store' = Put(chat_store, chat_id,
                         ChatRecord(chat_title, messages', chat_history'))
    /\ pc' = "button"
    /\ UNCHANGED << clock, chat_id, chat_title, event, locals, turn_count >>

\* lines 229-252: seed_intro_message()
SeedIntro ==
    /\ pc = "seed"
    /\ IF messages # <<>>
       THEN UNCHANGED << messages, chat_history, chat_store >>
       ELSE /\ messages' = Append(messages, AssistantMessage(intro_msg))
            /\ chat_history' = Append(chat_history, AssistantTurn(intro_msg))
            /\ chat_store' = Put(chat_store, chat_id,
                                 ChatRecord(chat_title, messages', chat_history'))
    /\ pc' = "button"
    /\ UNCHANGED << clock, chat_id, chat_title, event, locals, turn_count >>

\* lines 258-265: 'Start new chat' was clicked.  time.time() reads a clock that
\* has stood still or moved on by half minutes since it was last read.
StartNewChat ==
    /\ pc = "button"
    /\ event' = "click"
    /\ \E k \in 0..MaxTicks :
        /\ clock + 30 * k <= FirstClock + 30 * MaxTicks
        /\ clock' = clock + 30 * k
    /\ LET fresh_chat_id == FormatTime(clock')
           saved == Put(chat_store, chat_id, ChatRecord(chat_title, messages, chat_history))
           c == LoadChat(saved, fresh_chat_id)
       IN  /\ chat_store' = saved
           /\ chat_id' = fresh_chat_id
           /\ chat_title' = c.title
           /\ messages' = c.messages
           /\ chat_history' = c.chat_history
    /\ pc' = "sidebar_save"
    /\ UNCHANGED << locals, turn_count >>

\* line 258: the button was not clicked in this run
NoClick ==
    /\ pc = "button"
    /\ pc' = "sidebar_save"
    /\ UNCHANGED << clock, chat_store, working, event, locals, turn_count >>

\* lines 267-299: the title box, the save of the active chat, the rendering
SidebarSave ==
    /\ pc = "sidebar_save"
    /\ chat_store' = Put(chat_store, chat_id, ChatRecord(chat_title, messages, chat_history))
    /\ pc' = "input"
    /\ UNCHANGED << clock, working, event, locals, turn_count >>

\* the end of a script run: its locals are gone, no event is pending
EndRun ==
    /\ pc' = "idle"
    /\ event' = "none"
    /\ prompt' = ""
    /\ full_response' = ""
    /\ chunks' = <<>>

\* line 302: st.chat_input returns None, then the footer of line 377
NoPrompt ==
    /\ pc = "input"
    /\ EndRun
    /\ UNCHANGED << clock, chat_store, working, outcome, turn_count >>

\* line 302: st.chat_input returns '', which is falsy like None
EmptyPrompt ==
    /\ pc = "input"
    /\ event = "none"
    /\ "" \in Prompts
    /\ EndRun
    /\ UNCHANGED << clock, chat_store, working, outcome, turn_count >>

\* AcceptPrompt that leaves the user's turn out of chat_history
AcceptPrompt_WithoutHistory(p) ==
    /\ pc = "input"
    /\ event = "none"
    /\ TurnsBegun < MaxTurns
    /\ p # ""
    /\ event' = "prompt"
    /\ prompt' = p
    /\ chat_title' = IF DerivesTitle(chat_store, chat_id, chat_title)
                     THEN friendly_title_from_prompt(p, chat_id)
                     ELSE chat_title
    /\ turn_count' = Put(turn_count, chat_id,
                         [Count(turn_count, chat_id) EXCEPT !.begun = @ + 1])
    /\ pc' = "show_user"
    /\ UNCHANGED << clock, chat_store, chat_id, messages, chat_history,
                    full_response, chunks, outcome >>

\* lines 302-307: st.chat_input returns a non-empty text p; the title guard
\* and the user's turn in chat_history
AcceptPrompt(p) ==
    /\ pc = "input"
    /\ event = "none"
    /\ TurnsBegun < MaxTurns
    /\ p # ""
    /\ event' = "prompt"
    /\ prompt' = p
    /\ chat_title' = IF DerivesTitle(chat_store, chat_id, chat_title)
                     THEN friendly_title_from_prompt(p, chat_id)
                     ELSE chat_title
    /\ chat_history' = Append(chat_history, UserMessage(p))
    /\ turn_count' = Put(turn_count, chat_id,
                         [Count(turn_count, chat_id) EXCEPT !.begun = @ + 1])
    /\ pc' = "show_user"
    /\ UNCHANGED << clock, chat_store, chat_id, messages,
                    full_response, chunks, outcome >>

\* RecordUser with the save made before the append to messages
RecordUser_SavesFirst ==
    /\ pc = "show_user"
    /\ messages' = Append(messages, UserMessage(prompt))
    /\ chat_store' = Put(chat_store, chat_id, ChatRecord(chat_title, messages, chat_history))
    /\ full_response' = ""
    /\ pc' = "call"
    /\ UNCHANGED << clock, chat_id, chat_title, chat_history, event, prompt,
                    chunks, outcome, turn_count >>

\* lines 309-332: the user's bubble, the user's turn in messages, the save,
\* full_response = '' and the "thinking" placeholder
RecordUser ==
    /\ pc = "show_user"
    /\ messages' = Append(messages, UserMessage(prompt))
    /\ chat_store' = Put(chat_store, chat_id, ChatRecord(chat_title, messages', chat_history))
    /\ full_response' = ""
    /\ pc' = "call"
    /\ UNCHANGED << clock, chat_id, chat_title, chat_history, event, prompt,
                    chunks, outcome, turn_count >>

\* lines 335-339: client.chat.completions.create(...) returns the stream
CreateStream ==
    /\ pc = "call"
    /\ pc' = "stream"
    /\ UNCHANGED << clock, chat_store, working, event, locals, turn_count >>

\* lines 335-339 raise an OpenAIError before any chunk; lines 356-359
CreateFails ==
    /\ pc = "call"
    /\ full_response' = API_ERROR_SENTINEL
    /\ outcome' = "api_error"
    /\ pc' = "outcome"
    /\ UNCHANGED << clock, chat_store, working, event, prompt, chunks, turn_count >>

\* NextChunk with the text so far saved as the assistant's entry
NextChunk_SavesPartial(chunk) ==
    /\ pc = "stream"
    /\ Len(chunks) < MaxChunks
    /\ chunks' = Append(chunks, chunk)
    /\ full_response' = Accumulate(full_response, chunk)
    /\ chat_store' = Put(chat_store, chat_id,
                         ChatRecord(chat_title,
                                    Append(messages, AssistantMessage(full_response')),
                                    chat_history))
    /\ UNCHANGED << clock, working, pc, event, prompt, outcome, turn_count >>

\* lines 341-351: one well-formed chunk of the stream
NextChunk(chunk) ==
    /\ pc = "stream"
    /\ Len(chunks) < MaxChunks
    /\ chunks' = Append(chunks, chunk)
    /\ full_response' = Accumulate(full_response, chunk)
    /\ UNCHANGED << clock, chat_store, working, pc, event, prompt, outcome, turn_count >>

\* line 342 on a chunk without choices: IndexError is not an OpenAIError, the
\* script run ends with the exception
MalformedChunk ==
    /\ pc = "stream"
    /\ Len(chunks) < MaxChunks
    /\ outcome' = "uncaught"
    /\ EndRun
    /\ UNCHANGED << clock, chat_store, working, turn_count >>

\* line 341: the iterator raises an OpenAIError mid-stream; lines 356-359
StreamFails ==
    /\ pc = "stream"
    /\ full_response' = API_ERROR_SENTINEL
    /\ outcome' = "api_error"
    /\ pc' = "outcome"
    /\ UNCHANGED << clock, chat_store, working, event, prompt, chunks, turn_count >>

\* lines 353-355: the stream ended normally
StreamEnds ==
    /\ pc = "stream"
    /\ full_response' = Normalise(full_response)
    /\ outcome' = "ok"
    /\ pc' = "outcome"
    /\ UNCHANGED << clock, chat_store, working, event, prompt, chunks, turn_count >>

\* RecordOutcome that takes the user's message back when the turn failed
RecordOutcome_RollsBackOnError ==
    /\ pc = "outcome"
    /\ messages' = IF outcome = "api_error"
                   THEN SubSeq(messages, 1, Len(messages) - 1)
                   ELSE Append(messages, AssistantMessage(full_response))
    /\ chat_history' = IF RecordsInHistory(full_response)
                       THEN Append(chat_history, AssistantTurn(full_response))
                       ELSE chat_history
    /\ chat_store' = Put(chat_store, chat_id, ChatRecord(chat_title, messages', chat_history'))
    /\ turn_count' = IF outcome = "ok"
                     THEN Put(turn_count, chat_id,
                              [Count(turn_count, chat_id) EXCEPT !.ok = @ + 1])
                     ELSE turn_count
    /\ EndRun
    /\ UNCHANGED << clock, chat_id, chat_title, outcome >>

\* RecordOutcome without the save of lines 371-375
RecordOutcome_WithoutSave ==
    /\ pc = "outcome"
    /\ messages' = Append(messages, AssistantMessage(full_response))
    /\ chat_history' = IF RecordsInHistory(full_response)
                       THEN Append(chat_history, AssistantTurn(full_response))
                       ELSE chat_history
    /\ turn_count' = IF outcome = "ok"
                     THEN Put(turn_count, chat_id,
                              [Count(turn_count, chat_id) EXCEPT !.ok = @ + 1])
                     ELSE turn_count
    /\ EndRun
    /\ UNCHANGED << clock, chat_store, chat_id, chat_title, outcome >>

\* lines 361-377: the assistant's entry, the guarded history entry, the save
RecordOutcome ==
    /\ pc = "outcome"
    /\ messages' = Append(messages, AssistantMessage(full_response))
    /\ chat_history' = IF RecordsInHistory(full_response)
                       THEN Append(chat_history, AssistantTurn(full_response))
                       ELSE chat_history
    /\ chat_store' = Put(chat_store, chat_id, ChatRecord(chat_title, messages', chat_history'))
    /\ turn_count' = IF outcome = "ok"
                     THEN Put(turn_count, chat_id,
                              [Count(turn_count, chat_id) EXCEPT !.ok = @ + 1])
                     ELSE turn_count
    /\ EndRun
    /\ UNCHANGED << clock, chat_id, chat_title, outcome >>

(***************************************************************************)
(* Script runs.  Streamlit starts a run for every widget event; an event   *)
(* that arrives while a run is under way stops that run at its next st.*   *)
(* call (a control exception that no except clause of the script catches)  *)
(* and starts the next one.  A run's locals do not outlive it.             *)
(***************************************************************************)
\* the places where the run is inside or just past an st.* call
AtYieldPoint ==
    \/ pc \in { "button", "sidebar_save", "input", "show_user", "call", "outcome" }
    \/ pc = "stream" /\ chunks # <<>> /\ PieceText(chunks[Len(chunks)]) # ""

StartRun ==
    /\ event' = "none"
    /\ prompt' = ""
    /\ full_response' = ""
    /\ chunks' = <<>>
    /\ outcome' = "none"
    /\ pc' = "load"
    /\ UNCHANGED << clock, chat_store, working, turn_count >>

\* a widget event after the previous run has ended
Rerun ==
    /\ pc = "idle"
    /\ StartRun

\* a widget event while a run is under way
Interrupt ==
    /\ AtYieldPoint
    /\ StartRun

Next ==
    \/ Load
    \/ SeedIntro
    \/ StartNewChat
    \/ NoClick
    \/ SidebarSave
    \/ NoPrompt
    \/ EmptyPrompt
    \/ \E p \in Prompts : AcceptPrompt(p)
    \/ RecordUser
    \/ CreateStream
    \/ CreateFails
    \/ \E chunk \in WellFormedChunks : NextChunk(chunk)
    \/ MalformedChunk
    \/ StreamFails
    \/ StreamEnds
    \/ RecordOutcome
    \/ Rerun
    \/ Interrupt

Spec == Init /\ [][Next]_vars

(***************************************************************************)
(* The title functions on their own: friendly_title_from_prompt is called  *)
(* on a prompt and a chat id (TitleSpec).  prompt holds the argument,      *)
(* chat_id the id, chat_title the value returned; pc is "derive" before    *)
(* the call and "derived" after it.                                        *)
(***************************************************************************)
\* the words prompts are made of
SAMPLE_WORDS ==
    << "Tell", "me", "about", "your", "roof", "replacement", "project", "please",
       "today", "thanks", "again" >>

WordLists == { SubSeq(SAMPLE_WORDS, 1, n) : n \in 0..MaxWords }

\* whitespace between two words, and around the whole prompt
Separators == { " ", "  ", "\t", " \n" }

Paddings == { << "", "" >>, << " ", "" >>, << "", " " >>, << "\n\t", "  " >> }

\* the words of ws, sep between them, pad around them
RECURSIVE Spaced(_, _)
Spaced(ws, sep) ==
    IF ws = <<>> THEN ""
    ELSE IF Len(ws) = 1 THEN ws[1]
    ELSE ws[1] \o sep \o Spaced(Tail(ws), sep)

Compose(ws, sep, pad) == pad[1] \o Spaced(ws, sep) \o pad[2]

TitlePrompts == { Compose(ws, sep, pad) : ws \in WordLists, sep \in Separators, pad \in Paddings }

\* chat ids: what line 75 and line 259 produce, other decimal numbers, a
\* timestamp in milliseconds (beyond year 9999), and texts that are no number
TitleIds ==
    { FormatTime(FirstClock), FormatTime(FirstClock + 30), "0", " 86399 ", "59.9",
      "1700000000000", "", "abc", "12ab", "1.2.3" }

TitleInit ==
    /\ clock = FirstClock
    /\ chat_store = << >>
    /\ chat_id \in TitleIds
    /\ chat_title = NEW_CHAT
    /\ messages = <<>>
    /\ chat_history = <<>>
    /\ pc = "derive"
    /\ event = "none"
    /\ prompt \in TitlePrompts
    /\ full_response = ""
    /\ chunks = <<>>
    /\ outcome = "none"
    /\ turn_count = << >>

\* lines 199-207 called with a str
DeriveTitle ==
    /\ pc = "derive"
    /\ chat_title' = friendly_title_from_prompt(prompt, chat_id)
    /\ pc' = "derived"
    /\ UNCHANGED << clock, chat_store, chat_id, messages, chat_history, event,
                    locals, turn_count >>

\* lines 199-207 called with None: line 201 reads (prompt or ''), which is ''
DeriveTitleOfNone ==
    /\ pc = "derive"
    /\ prompt = ""
    /\ chat_title' = friendly_title_from_prompt("", chat_id)
    /\ pc' = "derived"
    /\ UNCHANGED << clock, chat_store, chat_id, messages, chat_history, event,
                    locals, turn_count >>

TitleNext ==
    \/ DeriveTitle
    \/ DeriveTitleOfNone

TitleSpec == TitleInit /\ [][TitleNext]_vars

(***************************************************************************)
(* Vocabulary of the properties.                                           *)
(***************************************************************************)
Last(seq) == seq[Len(seq)]

\* a display entry that stands for a failed assistant turn
IsSentinelEntry(m) == m.role = MODEL_ROLE /\ m.content = API_ERROR_SENTINEL

\* role and content of a display entry, without the avatar
Turn(m) == [role |-> m.role, content |-> m.content]

\* the display transcript as turns, the failure sentinels left out
RECURSIVE WithoutSentinels(_)
WithoutSentinels(msgs) ==
    IF msgs = <<>> THEN <<>>
    ELSE IF IsSentinelEntry(Head(msgs)) THEN WithoutSentinels(Tail(msgs))
    ELSE << Turn(Head(msgs)) >> \o WithoutSentinels(Tail(msgs))

Aligned(msgs, hist) == WithoutSentinels(msgs) = hist

RECURSIVE UserTurns(_)
UserTurns(seq) ==
    IF seq = <<>> THEN <<>>
    ELSE IF Head(seq).role = "user" THEN << Turn(Head(seq)) >> \o UserTurns(Tail(seq))
    ELSE UserTurns(Tail(seq))

\* the texts the chunks received so far contribute, in arrival order
RECURSIVE ArrivedText(_)
ArrivedText(cs) == IF cs = <<>> THEN "" ELSE PieceText(Head(cs)) \o ArrivedText(Tail(cs))

\* the step that records a turn's outcome (lines 361-375), as opposed to the
\* run being stopped there
OutcomeStep == pc = "outcome" /\ pc' = "idle"

\* no script run is under way, or the run is about to read the chat input
BetweenTurns == pc \in { "idle", "input" }

(***************************************************************************)
(* C1. Failure isolation: when the provider call raised an API error,      *)
(* before or after any number of chunks, the outcome step appends exactly  *)
(* one entry to the display transcript, the fixed sentinel (none of the    *)
(* accumulated text), and no entry to the model history, which is still    *)
(* what it was when the user message was recorded and saved.               *)
(***************************************************************************)
C1_FailureIsolation ==
    [][ (OutcomeStep /\ outcome = "api_error") =>
            /\ messages' = Append(messages, AssistantMessage(API_ERROR_SENTINEL))
            /\ chat_history' = chat_history
            /\ chat_history = chat_store[chat_id].chat_history
            /\ Last(chat_history) = UserMessage(prompt) ]_vars

\* a failed turn has been recorded: the sentinel is displayed and the model
\* history ends with the user's message
C1_Witness ==
    /\ pc = "idle"
    /\ outcome = "api_error"
    /\ IsSentinelEntry(Last(messages))
    /\ Last(chat_history).role = "user"
    /\ Len(messages) = Len(chat_history) + 1

(***************************************************************************)
(* C2. Turn count: once N >= 1 turns have been begun in the active chat    *)
(* and every one of them ended with its stream completing normally and its *)
(* outcome recorded, the display transcript and the model history each     *)
(* hold 2N entries plus the seeded intro.                                  *)
(***************************************************************************)
C2_TurnCount ==
    LET n == Count(turn_count, chat_id) IN
    (pc = "idle" /\ n.ok >= 1 /\ n.begun = n.ok) =>
        /\ Len(messages) = 2 * n.ok + 1
        /\ Len(chat_history) = 2 * n.ok + 1

\* the same count for the turns whose final text is not the sentinel string
C2_TurnCountOtherTexts ==
    LET n == Count(turn_count, chat_id) IN
    (/\ pc = "idle" /\ n.ok >= 1 /\ n.begun = n.ok
     /\ \A i \in 1..Len(messages) : ~IsSentinelEntry(messages[i])) =>
        /\ Len(messages) = 2 * n.ok + 1
        /\ Len(chat_history) = 2 * n.ok + 1

(***************************************************************************)
(* C3. Alignment: between turns, after any mix of successful and failed    *)
(* turns, the display transcript with its failure sentinels left out is,   *)
(* entry for entry in role and content, the model history; the same holds  *)
(* of every stored record.                                                 *)
(***************************************************************************)
C3_Aligned ==
    /\ BetweenTurns => Aligned(messages, chat_history)
    /\ \A id \in DOMAIN chat_store :
            Aligned(chat_store[id].messages, chat_store[id].chat_history)

\* a chat with a failed turn followed by a successful one
C3_Witness ==
    /\ pc = "idle"
    /\ Len(messages) = 5
    /\ IsSentinelEntry(messages[3])
    /\ messages[5].role = MODEL_ROLE
    /\ ~IsSentinelEntry(messages[5])
    /\ Len(chat_history) = 4

(***************************************************************************)
(* C4. No sentinel in the model history.  As stated: no entry of the       *)
(* working model history, nor of any stored one, has the sentinel string   *)
(* as its content.                                                         *)
(***************************************************************************)
HasText(hist, text) == \E i \in 1..Len(hist) : hist[i].content = text

C4_NoSentinelText ==
    /\ ~HasText(chat_history, API_ERROR_SENTINEL)
    /\ \A id \in DOMAIN chat_store : ~HasText(chat_store[id].chat_history, API_ERROR_SENTINEL)

(***************************************************************************)
(* C4, amended. No assistant entry of the working model history, nor of    *)
(* any stored one, has the sentinel string as its content: nothing a       *)
(* failed turn produced is in the context sent on a later turn.  (A user   *)
(* entry holds whatever the user typed.)                                   *)
(***************************************************************************)
HasSentinelTurn(hist) ==
    \E i \in 1..Len(hist) : hist[i].role = "assistant" /\ hist[i].content = API_ERROR_SENTINEL

C4_NoSentinelTurn ==
    /\ ~HasSentinelTurn(chat_history)
    /\ \A id \in DOMAIN chat_store : ~HasSentinelTurn(chat_store[id].chat_history)

\* the provider is about to be called on the turn after a failed one
C4_Witness ==
    /\ pc = "call"
    /\ Len(messages) = 4
    /\ IsSentinelEntry(messages[3])
    /\ Len(chat_history) = 3

(***************************************************************************)
(* C5. The user's message is recorded in both transcripts as one step: in  *)
(* every state the two transcripts hold the same user messages.            *)
(***************************************************************************)
C5_UserRecordedAtomically == UserTurns(messages) = UserTurns(chat_history)

(***************************************************************************)
(* C6. A stored chat is never a partial turn.  As stated: no stored        *)
(* record ends with a user message, that is, with a turn whose outcome has *)
(* not been recorded yet.                                                  *)
(***************************************************************************)
C6_NeverPartialTurn ==
    \A id \in DOMAIN chat_store :
        LET m == chat_store[id].messages IN m = <<>> \/ Last(m).role # "user"

(***************************************************************************)
(* C6, amended. The record stored for a chat id is the state before the    *)
(* turn, that state with the user's message recorded in both transcripts   *)
(* (the save of line 319, made before the provider is called), or the      *)
(* state with the turn's outcome recorded: every step leaves each stored   *)
(* record as it was or moves it by one whole step, which is the intro      *)
(* seeded into both transcripts of an empty chat, a user message appended  *)
(* to both, or an assistant entry appended to the display transcript after *)
(* a user message, with the same text appended to the model history or     *)
(* nothing.                                                                *)
(***************************************************************************)
StoredMessages(store, id) == IF id \in DOMAIN store THEN store[id].messages ELSE <<>>

StoredHistory(store, id) == IF id \in DOMAIN store THEN store[id].chat_history ELSE <<>>

WholeStep(om, oh, nm, nh) ==
    \/ nm = om /\ nh = oh
    \/ /\ om = <<>> /\ oh = <<>>
       /\ nm = << AssistantMessage(intro_msg) >>
       /\ nh = << AssistantTurn(intro_msg) >>
    \/ \E p \in Prompts :
        /\ nm = Append(om, UserMessage(p))
        /\ nh = Append(oh, UserMessage(p))
    \/ /\ om # <<>> /\ Last(om).role = "user"
       /\ Len(nm) = Len(om) + 1
       /\ SubSeq(nm, 1, Len(om)) = om
       /\ Last(nm).role = MODEL_ROLE
       /\ nh = oh \/ nh = Append(oh, AssistantTurn(Last(nm).content))

C6_StoredInWholeSteps ==
    [][ \A id \in DOMAIN chat_store' :
            WholeStep(StoredMessages(chat_store, id), StoredHistory(chat_store, id),
                      chat_store'[id].messages, chat_store'[id].chat_history) ]_vars

\* the stream is being read while the store holds the user's message and no
\* outcome for it
C6_Witness ==
    /\ pc = "stream"
    /\ chunks # <<>>
    /\ Last(chat_store[chat_id].messages) = UserMessage(prompt)
    /\ Last(chat_store[chat_id].chat_history) = UserMessage(prompt)

(***************************************************************************)
(* C7. No partial result is stored: within a turn the store is written by  *)
(* the step that records the user's message and by the step that records   *)
(* the outcome, and by no step in between; while the provider is called    *)
(* and the stream is read, the stored record is the working state as saved *)
(* with the user's message, so a run abandoned there leaves no chunk text  *)
(* in the store.                                                           *)
(***************************************************************************)
C7_NoWriteWhileStreaming ==
    [][ /\ (pc = "input" /\ pc' = "show_user") => chat_store' = chat_store
        /\ pc \in { "call", "stream" } =>
            /\ chat_store' = chat_store
            /\ chat_store[chat_id] = ChatRecord(chat_title, messages, chat_history)
            /\ Last(messages) = UserMessage(prompt)
        /\ (pc = "outcome" /\ pc' # "idle") => chat_store' = chat_store ]_vars

\* text has been accumulated from two chunks and the store holds none of it
C7_Witness ==
    /\ pc = "stream"
    /\ Len(chunks) >= 2
    /\ PieceText(chunks[1]) # ""
    /\ PieceText(chunks[2]) # ""
    /\ PieceText(chunks[1]) # PieceText(chunks[2])
    /\ full_response = PieceText(chunks[1]) \o PieceText(chunks[2])
    /\ Last(chat_store[chat_id].messages).role = "user"

(***************************************************************************)
(* C8. When the stream ends normally, the final text is the concatenation  *)
(* in arrival order of the texts of the non-empty chunks, or the           *)
(* placeholder '(No response.)' when that is empty, and the outcome step   *)
(* appends this text to both transcripts.                                  *)
(***************************************************************************)
FinalText(cs) == IF ArrivedText(cs) = "" THEN NO_RESPONSE ELSE ArrivedText(cs)

C8_FinalTextInBoth ==
    [][ (OutcomeStep /\ outcome = "ok") =>
            /\ messages' = Append(messages, AssistantMessage(FinalText(chunks)))
            /\ chat_history' = Append(chat_history, AssistantTurn(FinalText(chunks))) ]_vars

\* the part of C8 about the display transcript alone
C8_FinalTextDisplayed ==
    [][ (OutcomeStep /\ outcome = "ok") =>
            messages' = Append(messages, AssistantMessage(FinalText(chunks))) ]_vars

(***************************************************************************)
(* C9. A submitted prompt that is empty or only whitespace is a no-op: the *)
(* step that reads it leaves both transcripts, the title and the store     *)
(* unchanged and does not go on to call the provider.                      *)
(***************************************************************************)
C9_BlankPromptNoOp ==
    [][ (pc = "input" /\ pc' # "load" /\ Strip(prompt') = "") =>
            /\ UNCHANGED << working, chat_store >>
            /\ pc' = "idle" ]_vars

(***************************************************************************)
(* C10. On the first submitted turn of a chat whose title is still a       *)
(* default (the generic 'New Chat' or the fallback of its id), the step    *)
(* that accepts the prompt sets the title to the one derived from the      *)
(* prompt, and the record stored once the user's message is saved carries  *)
(* that title.                                                             *)
(***************************************************************************)
IsDefaultTitle(title, id) == title = "" \/ title = NEW_CHAT \/ title = default_chat_title(id)

C10_FirstTurnDerivesTitle ==
    [][ /\ ( /\ pc = "input" /\ pc' = "show_user"
             /\ UserTurns(messages) = <<>>
             /\ IsDefaultTitle(chat_title, chat_id) )
           => chat_title' = friendly_title_from_prompt(prompt', chat_id)
        /\ ( /\ pc = "show_user" /\ pc' = "call"
             /\ UserTurns(messages) = <<>> )
           => chat_store'[chat_id].title = friendly_title_from_prompt(prompt, chat_id)
      ]_vars

(***************************************************************************)
(* C11. Derivation never overwrites a title that is set: in a chat whose   *)
(* title is non-empty and is not the generic 'New Chat', no step of a      *)
(* turn, from the prompt being accepted to its outcome being recorded,     *)
(* changes the working title, and the stored title of the chat stays that  *)
(* title.                                                                  *)
(***************************************************************************)
InTurn == pc \in { "input", "show_user", "call", "stream", "outcome" }

C11_TitleKept ==
    [][ (InTurn /\ chat_title # "" /\ chat_title # NEW_CHAT) =>
            /\ chat_title' = chat_title
            /\ chat_store'[chat_id].title = chat_title ]_vars

\* a turn has been completed on a chat that had a title, a prompt of words
C11_Witness ==
    /\ pc = "idle"
    /\ outcome = "ok"
    /\ chat_title = default_chat_title(chat_id)
    /\ chat_title \notin { "", NEW_CHAT }
    /\ \E i \in 1..Len(messages) : messages[i] = UserMessage("hi")

(***************************************************************************)
(* C12. For a prompt that has words, the title derived from it is its      *)
(* first 8 words with one blank between them, followed by '...' exactly    *)
(* when the prompt has more than 8 words, whatever whitespace separates    *)
(* and surrounds the words and whatever the chat id.                       *)
(***************************************************************************)
FirstWords(ws, n) == Spaced(SubSeq(ws, 1, IF Len(ws) < n THEN Len(ws) ELSE n), " ")

C12_FirstEightWords ==
    pc = "derived" =>
        \A ws \in WordLists, sep \in Separators, pad \in Paddings :
            (ws # <<>> /\ prompt = Compose(ws, sep, pad)) =>
                /\ chat_title = FirstWords(ws, 8) \o (IF Len(ws) > 8 THEN "..." ELSE "")
                /\ \A id \in TitleIds : friendly_title_from_prompt(prompt, id) = chat_title

\* a title derived from nine words that tabs and line ends separate
C12_Witness ==
    /\ pc = "derived"
    /\ prompt = Compose(SubSeq(SAMPLE_WORDS, 1, 9), " \n", << "\n\t", "  " >>)
    /\ chat_title = "Tell me about your roof replacement project please..."

(***************************************************************************)
(* C13. As stated: the title derived from "Tell me about your roof         *)
(* replacement project please" is "Tell me about your roof replacement     *)
(* project...", for every chat id.                                         *)
(***************************************************************************)
ROOF_PROMPT == "Tell me about your roof replacement project please"

C13_RoofTitleCut ==
    (pc = "derived" /\ prompt = ROOF_PROMPT) =>
        chat_title = "Tell me about your roof replacement project..."

(***************************************************************************)
(* C13, amended. The title derived from "Tell me about your roof           *)
(* replacement project please" is that prompt itself, for every chat id:   *)
(* it has exactly 8 words, so no word is dropped and no '...' is added.    *)
(***************************************************************************)
C13_RoofTitleWhole ==
    (pc = "derived" /\ prompt = ROOF_PROMPT) =>
        chat_title = "Tell me about your roof replacement project please"

\* the title has been derived from that prompt, for an id that is no number
C13_Witness ==
    /\ pc = "derived"
    /\ prompt = ROOF_PROMPT
    /\ chat_id = "abc"
    /\ Len(Split(prompt)) = 8

(***************************************************************************)
(* C14. For a prompt that is empty, None or only whitespace, the title     *)
(* derived is the fallback of the chat id: 'Chat YYYY-MM-DD HH:MM' of the  *)
(* id read as seconds since the epoch when it is a number that has a date, *)
(* and 'New Chat' otherwise, which is what the call returns where reading *)
(* the id as a number or as a date raises.                                 *)
(***************************************************************************)
\* the fallbacks of the ids of TitleIds, worked out by hand (UTC)
FallbackOf(id) ==
    CASE id \in { "1700000000.0", "1700000030.0" } -> "Chat 2023-11-14 22:13"
      [] id \in { "0", "59.9" } -> "Chat 1970-01-01 00:00"
      [] id = " 86399 " -> "Chat 1970-01-01 23:59"
      [] id \in { "1700000000000", "", "abc", "12ab", "1.2.3" } -> "New Chat"

IsBlank(text) == \A i \in 1..Len(text) : At(text, i) \in { " ", "\t", "\n", "\r" }

C14_BlankPromptFallback ==
    (pc = "derived" /\ IsBlank(prompt)) => chat_title = FallbackOf(chat_id)

\* the fallback of a numeric id padded with blanks, for a prompt of whitespace
C14_Witness ==
    /\ pc = "derived"
    /\ prompt = "\n\t  "
    /\ chat_id = " 86399 "
    /\ chat_title = "Chat 1970-01-01 23:59"

(***************************************************************************)
(* C15. Titles are never empty: in every state the working title and the   *)
(* title of every stored record are non-empty, and loading a stored record *)
(* whose title is missing or empty gives a non-empty working title,        *)
(* whatever the chat id.                                                   *)
(***************************************************************************)
LoadedTitle(rec, id) == LoadChat(Put(<< >>, id, rec), id).title

\* records stored without a title and with an empty one, under every kind of id
LoadedTitlesNonEmpty ==
    \A id \in TitleIds :
        /\ LoadedTitle([messages |-> <<>>, chat_history |-> <<>>], id) # ""
        /\ LoadedTitle(ChatRecord("", <<>>, <<>>), id) # ""

C15_TitlesNonEmpty ==
    /\ chat_title # ""
    /\ \A id \in DOMAIN chat_store : chat_store[id].title # ""
    /\ LoadedTitlesNonEmpty

\* a second chat has been started and loaded; both chats are stored
C15_Witness ==
    /\ pc = "idle"
    /\ Cardinality(DOMAIN chat_store) = 2
    /\ chat_title = "Chat 2023-11-14 22:13"
    /\ messages # <<>>

(***************************************************************************)
(* C16. The step of 'Start new chat' stores the active chat (its title and *)
(* both transcripts as they are) under its id, takes a new id and makes    *)
(* it the active chat with both transcripts empty and the fallback of the  *)
(* new id as its title; the records stored before, that of the chat left   *)
(* included, are not changed by the activation.                            *)
(***************************************************************************)
StartNewStep == pc = "button" /\ pc' = "sidebar_save" /\ event' = "click"

StartsEmptyChat ==
    /\ chat_store'[chat_id] = ChatRecord(chat_title, messages, chat_history)
    /\ \A id \in DOMAIN chat_store \ { chat_id } : chat_store'[id] = chat_store[id]
    /\ chat_id' # chat_id
    /\ messages' = <<>>
    /\ chat_history' = <<>>
    /\ chat_title' = default_chat_title(chat_id')

C16_StartNewChat == [][ StartNewStep => StartsEmptyChat ]_vars

\* the same for the clicks at which the clock has moved on to an unused id
C16_StartNewChatOnFreshId ==
    [][ (StartNewStep /\ chat_id' \notin DOMAIN chat_store \cup { chat_id }) =>
            StartsEmptyChat ]_vars

(***************************************************************************)
(* C17. Every id taken for a new chat is fresh: it is not the id of the    *)
(* active chat nor an id of the store, whatever the clock reads as long as *)
(* it does not go back.                                                    *)
(***************************************************************************)
C17_FreshId ==
    [][ StartNewStep => (chat_id' # chat_id /\ chat_id' \notin DOMAIN chat_store) ]_vars

(***************************************************************************)
(* C18. Round trip: saving the working chat under its id and loading that  *)
(* id gives back the display transcript and the model history that were    *)
(* saved, entry for entry, whatever the title saved with them (the working *)
(* title, or none).                                                        *)
(***************************************************************************)
SavedAndLoaded(title) ==
    LoadChat(Put(chat_store, chat_id, ChatRecord(title, messages, chat_history)), chat_id)

C18_RoundTrip ==
    \A title \in { chat_title, "" } :
        /\ SavedAndLoaded(title).messages = messages
        /\ SavedAndLoaded(title).chat_history = chat_history

\* the two transcripts differ in length and in their entries: a user message
\* has been recorded after a failed turn
C18_Witness ==
    /\ pc = "call"
    /\ Len(messages) = 4
    /\ Len(chat_history) = 3
    /\ messages[4] = UserMessage("hi")
    /\ chat_history[3] = UserMessage("hi")

(***************************************************************************)
(* C19. No failure of the provider call or of the reading of its stream    *)
(* ends the run as an uncaught failure: the turn's outcome is recorded,    *)
(* with the sentinel as the last displayed entry and the chat saved.       *)
(***************************************************************************)
FailureRecorded ==
    /\ IsSentinelEntry(Last(messages))
    /\ chat_store[chat_id] = ChatRecord(chat_title, messages, chat_history)

C19_NoUncaughtFailure ==
    /\ outcome # "uncaught"
    /\ (pc = "idle" /\ outcome = "api_error") => FailureRecorded

\* the same for the failures the provider's library raises as OpenAIError
C19_ApiErrorRecorded == (pc = "idle" /\ outcome = "api_error") => FailureRecorded

(***************************************************************************)
(* C20. When a script run has ended, after a completed turn, a failed turn *)
(* or no turn at all, the record stored under the active id is the working *)
(* chat: same title, same display transcript, same model history.          *)
(***************************************************************************)
C20_StoredIsWorking ==
    pc = "idle" =>
        /\ chat_id \in DOMAIN chat_store
        /\ chat_store[chat_id] = ChatRecord(chat_title, messages, chat_history)

\* a run has ended with a completed turn in the store
C20_Witness ==
    /\ pc = "idle"
    /\ outcome = "ok"
    /\ Len(chat_store[chat_id].messages) = 3
    /\ chat_store[chat_id].messages[3].content = "b<Part>"
    /\ Len(chat_store[chat_id].chat_history) = 3

(***************************************************************************)
(* C21. The display transcript is append-only: every step leaves each      *)
(* stored chat in the store with its stored display transcript a prefix of *)
(* the one stored after the step, and leaves the working display           *)
(* transcript a prefix of the one after the step unless another chat       *)
(* becomes the active one.                                                 *)
(***************************************************************************)
IsPrefix(a, b) == Len(a) <= Len(b) /\ SubSeq(b, 1, Len(a)) = a

C21_AppendOnly ==
    [][ /\ \A id \in DOMAIN chat_store :
                /\ id \in DOMAIN chat_store'
                /\ IsPrefix(chat_store[id].messages, chat_store'[id].messages)
        /\ chat_id' = chat_id => IsPrefix(messages, messages') ]_vars

\* a chat stored with a failed turn, left for a second chat that has been
\* seeded and has its first user message stored
C21_Witness ==
    /\ pc = "call"
    /\ Cardinality(DOMAIN chat_store) = 2
    /\ \E id \in DOMAIN chat_store \ { chat_id } :
            /\ Len(chat_store[id].messages) = 3
            /\ IsSentinelEntry(chat_store[id].messages[3])
    /\ Len(chat_store[chat_id].messages) = 2

(***************************************************************************)
(* C22. When the provider is called, the messages sent are the system      *)
(* prompt followed by the whole model history, which is the history as     *)
(* saved with the user's message, so the last message sent is the prompt   *)
(* of this turn and the only system message is the first; at that moment   *)
(* both transcripts end with the user's message: neither holds an          *)
(* assistant entry of this turn.                                           *)
(***************************************************************************)
CallStep == pc = "call" /\ pc' \in { "stream", "outcome" }

C22_RequestIsHistory ==
    [][ CallStep =>
            \A sp \in SystemPrompts :
                LET sent == RequestMessages(sp, chat_history) IN
                /\ Len(sent) = Len(chat_store[chat_id].chat_history) + 1
                /\ sent[1] = [role |-> "system", content |-> sp]
                /\ \A i \in 2..Len(sent) :
                        /\ sent[i] = chat_store[chat_id].chat_history[i - 1]
                        /\ sent[i].role \in { "user", "assistant" }
                /\ Last(sent) = UserMessage(prompt)
                /\ Last(messages) = UserMessage(prompt)
                /\ Len(UserTurns(messages)) = Len(UserTurns(chat_history)) ]_vars

\* the call of a second turn has been made: the history sent held the intro,
\* the first turn with its reply, and the second prompt
C22_Witness ==
    /\ pc = "stream"
    /\ chunks = <<>>
    /\ Len(chat_history) = 4
    /\ chat_history[1] = AssistantTurn(intro_msg)
    /\ chat_history[2].role = "user"
    /\ chat_history[3].role = "assistant"
    /\ chat_history[4] = UserMessage(prompt)

(***************************************************************************)
(* C23. Seeding the intro is idempotent and positional: the seeding step   *)
(* adds the intro to both transcripts when the display transcript is empty *)
(* (the model history is empty then) and changes nothing otherwise; and    *)
(* after every step, every chat with a user message, the working one and   *)
(* the stored ones, has the intro as the first entry of both its           *)
(* transcripts and nowhere else in them.                                   *)
(***************************************************************************)
SeedStep == pc = "seed" /\ pc' = "button"

HasUserMessage(seq) == \E i \in 1..Len(seq) : seq[i].role = "user"

IntroCount(seq) == Cardinality({ i \in 1..Len(seq) : seq[i].content = intro_msg })

IntroFirstAndOnce(msgs, hist) ==
    /\ msgs # <<>> /\ msgs[1] = AssistantMessage(intro_msg)
    /\ hist # <<>> /\ hist[1] = AssistantTurn(intro_msg)
    /\ IntroCount(msgs) = 1
    /\ IntroCount(hist) = 1

C23_IntroSeededOnce ==
    [][ /\ SeedStep =>
            IF messages = <<>>
            THEN /\ chat_history = <<>>
                 /\ messages' = << AssistantMessage(intro_msg) >>
                 /\ chat_history' = << AssistantTurn(intro_msg) >>
            ELSE UNCHANGED << messages, chat_history >>
        /\ (HasUserMessage(messages') \/ HasUserMessage(chat_history')) =>
                IntroFirstAndOnce(messages', chat_history')
        /\ \A id \in DOMAIN chat_store' :
                (\/ HasUserMessage(chat_store'[id].messages)
                 \/ HasUserMessage(chat_store'[id].chat_history)) =>
                    IntroFirstAndOnce(chat_store'[id].messages, chat_store'[id].chat_history)
      ]_vars

\* two chats, each seeded and each with one user message, after the reruns
\* and the new-chat step that led there
C23_Witness ==
    /\ pc = "idle"
    /\ Cardinality(DOMAIN chat_store) = 2
    /\ \A id \in DOMAIN chat_store :
            /\ Len(UserTurns(chat_store[id].messages)) = 1
            /\ chat_store[id].messages[1] = AssistantMessage(intro_msg)

====
